---------------------------- MODULE Spec2Model ----------------------------
(***************************************************************************)
(* A model of the infection simulation of src/simulation.py (class         *)
(* GraphSimulation): construction of the node graph and of the population, *)
(* the day loop of run_simulation with its three movement turns, the       *)
(* stochastic infection step that follows each turn, and the history.      *)
(*                                                                         *)
(* Random draws (random.shuffle, random.choice, random.random) are         *)
(* nondeterministic choices over every outcome the generator can give.     *)
(* Probabilities are exact rationals [num, den].  Person ids "P0", "P1",   *)
(* ... are the integers 0, 1, ...; a node id such as "h2" is the pair      *)
(* <<"h", 2>>.                                                             *)
(*                                                                         *)
(* Five specifications: Spec, one GraphSimulation instance from its        *)
(* construction through its run_simulation calls; SpecChance,              *)
(* calculate_infection_chance applied to nodes of every category and       *)
(* occupancy; SpecProgression, the disease progression of the Simulation   *)
(* class that app.py and app2.py drive, which the specification describes  *)
(* and the source files do not contain; SpecMicro, the day loop of app2.py *)
(* driving that Simulation; SpecSeeded, the GraphSimulation instance with  *)
(* its draws taken from the one generator of the random module, run alone  *)
(* and then beside a second instance.                                      *)
(***************************************************************************)
EXTENDS Integers, Sequences, FiniteSets, TLC

VARIABLES
    category_counts,              \* constructor argument (dict category -> count)
    total_population,             \* constructor argument
    initial_infected_percentage,  \* constructor argument, a rational <<num, den>>
    nodes,                        \* self.nodes: node id -> Node
    person_to_household,          \* self.person_to_household
    person_location,              \* self.person_location
    person_status,                \* self.person_status
    simulation_history,           \* self.simulation_history
    pc,                           \* position in __init__ / run_simulation
    day,                          \* loop variable of run_simulation
    days,                         \* argument of the current run_simulation call
    stdout,                       \* the headers printed so far
    q_node,                       \* a Node handed to calculate_infection_chance
    q_chance,                     \* <<the chance returned for q_node>>, or <<>>
    q_prev,                       \* <<the chance returned before the last arrival>>
    people,                       \* Simulation.people: agent -> Person
    config,                       \* the configuration of the Simulation
    current_day,                  \* the Simulation's day counter
    phase,                        \* the next step of the Simulation's day
    timeline,                     \* st.session_state.timeline of app2.py
    random_stream,                \* the outputs of the module-level generator
    random_pos,                   \* the number of outputs drawn from it so far
    person_order,                 \* the iteration order of the person dictionaries
    process,                      \* which process runs: "alone" or "shared"
    alone_history,                \* the history the instance produced alone
    alone_days,                   \* the days it was run for alone
    other,                        \* a second GraphSimulation instance
    work_log                      \* person_location after each turn1 so far

gvars == <<category_counts, total_population, initial_infected_percentage,
           nodes, person_to_household, person_location, person_status,
           simulation_history, pc, day, days, stdout>>

qvars == <<q_node, q_chance, q_prev>>

dvars == <<people, config, current_day, phase>>

\* The state around the instance: the caller's timeline, the generator of the
\* random module, and what the comparison of two processes keeps
xvars == <<timeline, random_stream, random_pos, person_order, process,
           alone_history, alone_days, other, work_log>>

vars == <<gvars, qvars, dvars, xvars>>

-----------------------------------------------------------------------------
(* Bounds of the model. *)

\* the largest total_population
MaxPop == 3

\* the days simulated by one instance, over all its run_simulation calls
MaxDays == 2

\* the run_simulation calls on one instance
MaxCalls == 2

\* the largest count of infected, and of non-infected, occupants of a node
\* handed to calculate_infection_chance in SpecChance
MaxOccupants == 3

\* the agents of SpecProgression
MaxAgents == 2

\* the days of SpecProgression
MaxSimDays == 5

-----------------------------------------------------------------------------
(* Configuration. *)

Categories == {"h", "sh", "p", "s", "r", "c", "t", "H", "o"}

NoCounts == [c \in Categories |-> 0]

\* The category_counts dictionaries the model constructs simulations from:
\* a town with a household, a school and an office; a town without school
\* and office; a configuration without any household.
CategoryCountsChoices ==
    { [NoCounts EXCEPT !["h"] = 1, !["s"] = 1, !["o"] = 1],
      [NoCounts EXCEPT !["h"] = 2, !["p"] = 1],
      [NoCounts EXCEPT !["s"] = 1] }

\* The initial infected fractions the model constructs simulations with:
\* 0, 1/2 and 1
PercentageChoices == {<<0, 1>>, <<1, 2>>, <<1, 1>>}

Statuses == {"infected", "non_infected"}

\* Node.__init__
Node(node_id, category) ==
    [id |-> node_id, category |-> category,
     population |-> [infected |-> 0, non_infected |-> 0],
     people |-> <<>>]

\* _initialize_nodes: the node ids f"{category}{i+1}" for i in range(count),
\* each holding a fresh Node of its category
InitialNodes(cc) ==
    LET ids == UNION {{<<c, i>> : i \in 1..cc[c]} : c \in Categories}
    IN [nid \in ids |-> Node(nid, nid[1])]

node_ids == DOMAIN nodes

\* self.household_ids cut down to its first entry
HouseholdIdsFirstOnly(ns) ==
    [i \in 1..(IF \E n \in DOMAIN ns : ns[n].category = "h" THEN 1 ELSE 0) |->
        <<"h", i>>]

\* self.household_ids, in the order the nodes were created: h1, h2, ...
HouseholdIds(ns) ==
    [i \in 1..Cardinality({n \in DOMAIN ns : ns[n].category = "h"}) |-> <<"h", i>>]

household_ids == HouseholdIds(nodes)

school_ids == {n \in node_ids : nodes[n].category = "s"}

office_ids == {n \in node_ids : nodes[n].category = "o"}

-----------------------------------------------------------------------------
(* Node occupancy. *)

\* All nodes emptied: population = {'infected': 0, 'non_infected': 0}, people = {}
ClearedNodes(ns) ==
    [n \in DOMAIN ns |->
        [ns[n] EXCEPT !.population = [infected |-> 0, non_infected |-> 0],
                      !.people = <<>>]]

\* Populated with the people dictionaries left empty: only the counters are
\* kept
PopulatedCountersOnly(ns, loc, st) ==
    [n \in DOMAIN ns |->
        LET here == {p \in DOMAIN loc : loc[p] = n}
        IN [ns[n] EXCEPT
              !.population =
                  [infected     |-> Cardinality({p \in here : st[p] = "infected"}),
                   non_infected |-> Cardinality({p \in here : st[p] = "non_infected"})]]]

\* Emptied nodes into which every person of loc has been entered at loc[p] with
\* status st[p]: population[status] += 1, people[person_id] = status
Populated(ns, loc, st) ==
    [n \in DOMAIN ns |->
        LET here == {p \in DOMAIN loc : loc[p] = n}
        IN [ns[n] EXCEPT
              !.population =
                  [infected     |-> Cardinality({p \in here : st[p] = "infected"}),
                   non_infected |-> Cardinality({p \in here : st[p] = "non_infected"})],
              !.people = [p \in here |-> st[p]]]]

-----------------------------------------------------------------------------
(* The infection chance, an exact rational. *)

Zero == [num |-> 0, den |-> 1]

One == [num |-> 1, den |-> 1]

\* a <= b for rationals with positive denominators
RatLE(a, b) == a.num * b.den <= b.num * a.den

\* category_factors, in tenths; .get(category, 0.5) for an unknown category
category_factors(category) ==
    CASE category = "h"  -> 5
      [] category = "sh" -> 4
      [] category = "p"  -> 1
      [] category = "s"  -> 7
      [] category = "r"  -> 6
      [] category = "c"  -> 3
      [] category = "t"  -> 5
      [] category = "H"  -> 9
      [] category = "o"  -> 6
      [] OTHER           -> 5

\* calculate_infection_chance taking the non-infected count for the infected one
calculate_infection_chance_wrong_count(node) ==
    LET total  == node.population.infected + node.population.non_infected
        chance == [num |-> node.population.non_infected * category_factors(node.category),
                   den |-> total * 10]
    IN IF total = 0 THEN Zero
       ELSE IF RatLE(chance, One) THEN chance ELSE One

\* calculate_infection_chance without the proportion of infected occupants
calculate_infection_chance_factor_only(node) ==
    LET total == node.population.infected + node.population.non_infected
    IN IF total = 0 THEN Zero
       ELSE [num |-> category_factors(node.category), den |-> 10]

\* calculate_infection_chance returning the category's factor for a node with
\* no occupants
calculate_infection_chance_empty_factor(node) ==
    LET infected == node.population.infected
        total    == node.population.infected + node.population.non_infected
        chance   == [num |-> infected * category_factors(node.category),
                     den |-> total * 10]
    IN IF total = 0 THEN [num |-> category_factors(node.category), den |-> 10]
       ELSE IF RatLE(chance, One) THEN chance ELSE One

calculate_infection_chance(node) ==
    LET infected == node.population.infected
        total    == node.population.infected + node.population.non_infected
        chance   == [num |-> infected * category_factors(node.category),
                     den |-> total * 10]
    IN IF total = 0 THEN Zero
       ELSE IF RatLE(chance, One) THEN chance ELSE One

-----------------------------------------------------------------------------
(* Construction. *)

\* No caller, generator or second instance is modelled
CallersIdle ==
    /\ timeline = <<>>
    /\ random_stream = <<>>
    /\ random_pos = 0
    /\ person_order = <<>>
    /\ process = ""
    /\ alone_history = <<>>
    /\ alone_days = 0
    /\ other = <<>>
    /\ work_log = <<>>

\* random.shuffle(person_list): every order of the persons
Shuffles(persons) ==
    {o \in [1..Cardinality(persons) -> persons] :
        \A i, j \in DOMAIN o : i # j => o[i] # o[j]}

\* int(self.total_population * self.initial_infected_percentage)
NumInfected(total, pct) == (total * pct[1]) \div pct[2]

\* len(range(n))
RangeLen(n) == IF n < 0 THEN 0 ELSE n

\* InitialStatus with one more person infected than num_infected
InitialStatusOneMore(i, num_infected) ==
    IF i <= num_infected THEN "infected" ELSE "non_infected"

\* the status given to person f"P{i}" when person_list is built
InitialStatus(i, num_infected) ==
    IF i < num_infected THEN "infected" ELSE "non_infected"

\* GraphSimulation.__init__: _initialize_nodes, then _initialize_population.
\* i % len(self.household_ids) raises ZeroDivisionError when there is a person
\* and no household.
Construct ==
    /\ pc = "new"
    /\ LET ns           == InitialNodes(category_counts)
           hh           == HouseholdIds(ns)
           num_infected == NumInfected(total_population, initial_infected_percentage)
           num_non      == total_population - num_infected
           persons      == 0..(RangeLen(num_infected) + RangeLen(num_non) - 1)
       IN IF persons # {} /\ Len(hh) = 0
          THEN /\ pc' = "error"
               /\ UNCHANGED <<nodes, person_to_household, person_location,
                              person_status>>
          ELSE \E order \in Shuffles(persons) :
                 LET home == [p \in persons |->
                                hh[(((CHOOSE i \in DOMAIN order : order[i] = p) - 1)
                                      % Len(hh)) + 1]]
                     st   == [p \in persons |-> InitialStatus(p, num_infected)]
                 IN /\ person_to_household' = home
                    /\ person_location' = home
                    /\ person_status' = st
                    /\ nodes' = Populated(ns, home, st)
                    /\ pc' = "ready"
    /\ UNCHANGED <<qvars, dvars>>
    /\ UNCHANGED <<category_counts, total_population, initial_infected_percentage,
                   simulation_history, day, days, stdout>>

-----------------------------------------------------------------------------
(* run_simulation. *)

Line(text, d, k) == [text |-> text, day |-> d, turn |-> k]

NumCalls == Cardinality({i \in DOMAIN stdout : stdout[i].text = "Initial State"})

DaysRun == Cardinality({i \in DOMAIN stdout : stdout[i].text = "End of Day"})

\* _record_history with the status filter of the count left out
RecordedHistoryUnfiltered(d) ==
    Append(simulation_history,
           [day |-> d, total_infected |-> Cardinality(DOMAIN person_status)])

\* _record_history counting the persons who are not infected
RecordedHistoryNonInfected(d) ==
    Append(simulation_history,
           [day |-> d,
            total_infected |->
                Cardinality({p \in DOMAIN person_status :
                                person_status[p] = "non_infected"})])

\* _record_history
RecordedHistory(d) ==
    Append(simulation_history,
           [day |-> d,
            total_infected |->
                Cardinality({p \in DOMAIN person_status : person_status[p] = "infected"})])

\* The day loop with the second infection step moved behind turn3
DayLoopBodyLateInfection ==
    <<"turn1", "infect1", "turn2", "turn3", "infect2", "infect3", "record">>

\* The statements of the day loop of run_simulation, in order
DayLoopBody == <<"turn1", "infect1", "turn2", "infect2", "turn3", "infect3", "record">>

\* The statement executed after statement s of the loop body
StatementAfter(s) ==
    LET i == CHOOSE k \in DOMAIN DayLoopBody : DayLoopBody[k] = s
    IN DayLoopBody[i + 1]

TurnOf(s) ==
    CASE s \in {"turn1", "infect1"} -> 1
      [] s \in {"turn2", "infect2"} -> 2
      [] s \in {"turn3", "infect3"} -> 3

\* run_simulation(d), up to the first iteration of the day loop
RunSimulation(d) ==
    /\ pc = "ready"
    /\ NumCalls < MaxCalls
    /\ DaysRun + d <= MaxDays
    /\ stdout' = Append(stdout, Line("Initial State", 0, 0))
    /\ simulation_history' = RecordedHistory(0)
    /\ days' = d
    /\ day' = 1
    /\ pc' = IF 1 <= d THEN DayLoopBody[1] ELSE "ready"
    /\ UNCHANGED <<qvars, dvars>>
    /\ UNCHANGED <<category_counts, total_population, initial_infected_percentage,
                   nodes, person_to_household, person_location, person_status>>

\* The headers a turn prints: the day header when the turn opens the day, then
\* its own
TurnHeaders(k) ==
    (IF DayLoopBody[1] = pc THEN <<Line("DAY", day, 0)>> ELSE <<>>)
        \o <<Line("Turn", 0, k)>>

\* turn1: everybody to a random school or office; skipped, after the nodes
\* were cleared, when there is neither
Turn1 ==
    /\ pc = "turn1"
    /\ stdout' = stdout \o TurnHeaders(1)
    /\ LET destinations == school_ids \cup office_ids
       IN IF destinations = {}
          THEN /\ nodes' = ClearedNodes(nodes)
               /\ UNCHANGED person_location
          ELSE \E dest \in [DOMAIN person_to_household -> destinations] :
                 /\ person_location' = dest
                 /\ nodes' = Populated(ClearedNodes(nodes), dest, person_status)
    /\ pc' = StatementAfter(pc)
    /\ UNCHANGED <<qvars, dvars>>
    /\ UNCHANGED <<category_counts, total_population, initial_infected_percentage,
                   person_to_household, person_status, simulation_history,
                   day, days>>

\* turn2 drawing from ids numbered from 0 (range(count + 1)) instead of the
\* ids of the nodes created
Turn2DestinationsFromZero ==
    UNION {{<<c, i>> : i \in 0..category_counts[c]} : c \in Categories}

\* the destinations random.choice(self.node_ids) draws from in turn2
Turn2Destinations == node_ids

\* turn2 in which a person who moves to a household becomes a resident of it
Turn2Resettling ==
    /\ pc = "turn2"
    /\ stdout' = stdout \o TurnHeaders(2)
    /\ \E dest \in [DOMAIN person_location -> Turn2Destinations] :
         /\ person_location' = dest
         /\ person_to_household' =
               [p \in DOMAIN person_to_household |->
                   IF dest[p][1] = "h" THEN dest[p] ELSE person_to_household[p]]
         /\ nodes' = Populated(ClearedNodes(nodes), dest, person_status)
    /\ pc' = StatementAfter(pc)
    /\ UNCHANGED <<qvars, dvars>>
    /\ UNCHANGED <<category_counts, total_population, initial_infected_percentage,
                   person_status, simulation_history, day, days>>

\* turn2: everybody to a random node
Turn2 ==
    /\ pc = "turn2"
    /\ stdout' = stdout \o TurnHeaders(2)
    /\ \E dest \in [DOMAIN person_location -> Turn2Destinations] :
         /\ person_location' = dest
         /\ nodes' = Populated(ClearedNodes(nodes), dest, person_status)
    /\ pc' = StatementAfter(pc)
    /\ UNCHANGED <<qvars, dvars>>
    /\ UNCHANGED <<category_counts, total_population, initial_infected_percentage,
                   person_to_household, person_status, simulation_history,
                   day, days>>

\* turn3 leaving a person where the person is
Turn3DestinationStay(p) == person_location[p]

\* the destination of person p in turn3
Turn3Destination(p) == person_to_household[p]

\* turn3: everybody back to the household
Turn3 ==
    /\ pc = "turn3"
    /\ stdout' = stdout \o TurnHeaders(3)
    /\ LET dest == [p \in DOMAIN person_to_household |-> Turn3Destination(p)]
       IN /\ person_location' = dest
          /\ nodes' = Populated(ClearedNodes(nodes), dest, person_status)
    /\ pc' = StatementAfter(pc)
    /\ UNCHANGED <<qvars, dvars>>
    /\ UNCHANGED <<category_counts, total_population, initial_infected_percentage,
                   person_to_household, person_status, simulation_history,
                   day, days>>

-----------------------------------------------------------------------------
(* apply_infection. *)

\* random.random() < chance can come out true: random() is in [0, 1)
MayInfect(chance) == 0 < chance.num

\* random.random() < chance can come out false
MayEscape(chance) == chance.num < chance.den

\* apply_infection with one draw of random.random() per node
NodeOutcomesOneDraw(node) ==
    LET infection_chance == calculate_infection_chance(node)
        non_infected_people ==
            {p \in DOMAIN node.people : node.people[p] = "non_infected"}
    IN IF non_infected_people = {} \/ infection_chance = Zero THEN {{}}
       ELSE {{}, non_infected_people}

\* The sets of persons apply_infection may newly infect at one node: none when
\* the node is empty, holds nobody non-infected or has chance 0.0; otherwise
\* one draw of random.random() per non-infected person
NodeOutcomes(node) ==
    LET total == node.population.infected + node.population.non_infected
        infection_chance == calculate_infection_chance(node)
        non_infected_people ==
            {p \in DOMAIN node.people : node.people[p] = "non_infected"}
    IN IF total = 0 THEN {{}}
       ELSE IF non_infected_people = {} \/ infection_chance = Zero THEN {{}}
       ELSE {X \in SUBSET non_infected_people :
                /\ X # {} => MayInfect(infection_chance)
                /\ X # non_infected_people => MayEscape(infection_chance)}

\* infected / total raises ZeroDivisionError at a node that is not skipped as
\* empty and whose chance is computed with a zero total
NodeRaises(node) ==
    /\ node.population.infected + node.population.non_infected # 0
    /\ calculate_infection_chance(node).den = 0

\* The sets of persons one apply_infection call may newly infect
InfectionOutcomes ==
    {X \in SUBSET DOMAIN person_status :
        /\ X \subseteq UNION {DOMAIN nodes[n].people : n \in node_ids}
        /\ \A n \in node_ids : (X \cap DOMAIN nodes[n].people) \in NodeOutcomes(nodes[n])}

\* apply_infection that sends the newly infected persons to their households
ApplyInfectionSendingHome ==
    /\ pc \in {"infect1", "infect2", "infect3"}
    /\ stdout' = Append(stdout, Line("Applying Stochastic Infection", day, TurnOf(pc)))
    /\ \E newly \in InfectionOutcomes :
         /\ person_status' = [p \in DOMAIN person_status |->
                                IF p \in newly THEN "infected" ELSE person_status[p]]
         /\ person_location' = [p \in DOMAIN person_location |->
                                  IF p \in newly THEN person_to_household[p]
                                  ELSE person_location[p]]
         /\ nodes' = Populated(ClearedNodes(nodes), person_location', person_status')
    /\ pc' = IF \E n \in node_ids : NodeRaises(nodes[n])
             THEN "error"
             ELSE StatementAfter(pc)
    /\ UNCHANGED <<qvars, dvars>>
    /\ UNCHANGED <<category_counts, total_population, initial_infected_percentage,
                   person_to_household, simulation_history, day, days>>

\* apply_infection without the call of _recalculate_node_populations
ApplyInfectionNoRecalculation ==
    /\ pc \in {"infect1", "infect2", "infect3"}
    /\ stdout' = Append(stdout, Line("Applying Stochastic Infection", day, TurnOf(pc)))
    /\ \E newly \in InfectionOutcomes :
         person_status' = [p \in DOMAIN person_status |->
                             IF p \in newly THEN "infected" ELSE person_status[p]]
    /\ pc' = IF \E n \in node_ids : NodeRaises(nodes[n])
             THEN "error"
             ELSE StatementAfter(pc)
    /\ UNCHANGED <<qvars, dvars>>
    /\ UNCHANGED <<category_counts, total_population, initial_infected_percentage,
                   nodes, person_to_household, person_location,
                   simulation_history, day, days>>

\* apply_infection(title), _recalculate_node_populations included
ApplyInfection ==
    /\ pc \in {"infect1", "infect2", "infect3"}
    /\ stdout' = Append(stdout, Line("Applying Stochastic Infection", day, TurnOf(pc)))
    /\ \E newly \in InfectionOutcomes :
         /\ person_status' = [p \in DOMAIN person_status |->
                                IF p \in newly THEN "infected" ELSE person_status[p]]
         /\ nodes' = Populated(ClearedNodes(nodes), person_location, person_status')
    /\ pc' = IF \E n \in node_ids : NodeRaises(nodes[n])
             THEN "error"
             ELSE StatementAfter(pc)
    /\ UNCHANGED <<qvars, dvars>>
    /\ UNCHANGED <<category_counts, total_population, initial_infected_percentage,
                   person_to_household, person_location, simulation_history,
                   day, days>>

\* The end of one iteration of the day loop: the end-of-day header,
\* _record_history(day), and the loop's next day or its end
RecordDay ==
    /\ pc = "record"
    /\ stdout' = Append(stdout, Line("End of Day", day, 0))
    /\ simulation_history' = RecordedHistory(day)
    /\ day' = day + 1
    /\ pc' = IF day + 1 <= days THEN DayLoopBody[1] ELSE "ready"
    /\ UNCHANGED <<qvars, dvars>>
    /\ UNCHANGED <<category_counts, total_population, initial_infected_percentage,
                   nodes, person_to_household, person_location, person_status,
                   days>>

-----------------------------------------------------------------------------
(* The specification of one GraphSimulation instance. *)

Init ==
    /\ category_counts \in CategoryCountsChoices
    /\ total_population \in 0..MaxPop
    /\ initial_infected_percentage \in PercentageChoices
    /\ nodes = <<>>
    /\ person_to_household = <<>>
    /\ person_location = <<>>
    /\ person_status = <<>>
    /\ simulation_history = <<>>
    /\ pc = "new"
    /\ day = 0
    /\ days = 0
    /\ stdout = <<>>
    /\ q_node = <<>> /\ q_chance = <<>> /\ q_prev = <<>>
    /\ people = <<>> /\ config = <<>> /\ current_day = 0 /\ phase = ""
    /\ CallersIdle

Next ==
    \/ Construct /\ UNCHANGED xvars
    \/ \E d \in 0..MaxDays : RunSimulation(d) /\ UNCHANGED xvars
    \/ Turn1 /\ UNCHANGED xvars
    \/ Turn2 /\ UNCHANGED xvars
    \/ Turn3 /\ UNCHANGED xvars
    \/ ApplyInfection /\ UNCHANGED xvars
    \/ RecordDay /\ UNCHANGED xvars

Spec == Init /\ [][Next]_vars

-----------------------------------------------------------------------------
(* Properties of one GraphSimulation instance. *)

Constructed == pc \notin {"new", "error"}

Count(status) ==
    Cardinality({p \in DOMAIN person_status : person_status[p] = status})

Last(seq) == seq[Len(seq)]

Occupants(n) == DOMAIN nodes[n].people

Located(n) == {p \in DOMAIN person_location : person_location[p] = n}

\* What C1 says of one step
C1_Step ==
    simulation_history' # simulation_history =>
        /\ Len(simulation_history') = Len(simulation_history) + 1
        /\ Last(simulation_history').total_infected
             + Cardinality({p \in DOMAIN person_status' :
                              person_status'[p] = "non_infected"})
             = total_population'

\* C1  Conservation: whenever an entry is recorded in the history, the infected
\* count it records plus the number of non-infected persons at that moment is
\* total_population.
C1_Conservation == [][C1_Step]_vars

C1_Witness ==
    /\ Len(simulation_history) >= 3
    /\ Last(simulation_history).day = 2
    /\ 0 < Last(simulation_history).total_infected
    /\ Last(simulation_history).total_infected < total_population

\* The lines the day loop prints for day d
DayLines(d) ==
    <<Line("DAY", d, 0),
      Line("Turn", 0, 1), Line("Applying Stochastic Infection", d, 1),
      Line("Turn", 0, 2), Line("Applying Stochastic Infection", d, 2),
      Line("Turn", 0, 3), Line("Applying Stochastic Infection", d, 3),
      Line("End of Day", d, 0)>>

\* C2  Every day runs turn1, turn2, turn3 in this order, each turn is followed
\* at once by exactly one infection step, and a day begins only after the day
\* before it has ended: every printed line lies in a block that starts at a day
\* header and is a prefix of that day's lines, and a day header follows the end
\* of the previous day (or, for day 1, the start of the run).
C2_PhaseOrder ==
    \A i \in DOMAIN stdout :
        IF stdout[i].text = "Initial State"
        THEN i = 1 \/ stdout[i - 1].text \in {"Initial State", "End of Day"}
        ELSE /\ \E start \in 1..i :
                  /\ stdout[start].text = "DAY"
                  /\ i - start < Len(DayLines(0))
                  /\ \A j \in start..i :
                        stdout[j] = DayLines(stdout[start].day)[j - start + 1]
             /\ stdout[i].text = "DAY" =>
                  /\ i > 1
                  /\ IF stdout[i].day = 1
                     THEN stdout[i - 1] = Line("Initial State", 0, 0)
                     ELSE stdout[i - 1] = Line("End of Day", stdout[i].day - 1, 0)

C2_Witness ==
    /\ pc = "ready"
    /\ Len(stdout) > 0
    /\ Last(stdout) = Line("End of Day", 2, 0)

\* C4  After construction every person's current location is an existing node.
C4_LocationExists ==
    Constructed =>
        \A p \in DOMAIN person_location : person_location[p] \in DOMAIN nodes

C4_Witness ==
    /\ pc = "infect2"
    /\ \E p \in DOMAIN person_location :
          person_location[p] # person_to_household[p]

\* C5  After every movement turn each node's people are exactly the persons
\* located at the node.
C5_OccupancyRebuilt ==
    pc \in {"infect1", "infect2", "infect3"} =>
        \A n \in node_ids : Occupants(n) = Located(n)

\* C6  After turn3 every person is at the person's own household.
C6_AllHomeAfterTurn3 ==
    pc \in {"infect3", "record"} =>
        \A p \in DOMAIN person_location :
            person_location[p] = person_to_household[p]

C6_Witness ==
    /\ pc = "infect3"
    /\ \E p, q \in DOMAIN person_location :
          person_to_household[p] # person_to_household[q]

\* A node at which the guards of the infection step apply
Guarded(n) ==
    \/ nodes[n].population.infected = 0
    \/ nodes[n].population.non_infected = 0
    \/ nodes[n].population.infected + nodes[n].population.non_infected = 0

\* What C7 says of one step
C7_Step ==
    pc \in {"infect1", "infect2", "infect3"} =>
        /\ pc' = StatementAfter(pc)
        /\ \A n \in node_ids :
              Guarded(n) =>
                  \A p \in Occupants(n) \cup Located(n) :
                      person_status'[p] = person_status[p]

\* C7  In an infection step nobody in a node with zero infected, zero
\* non-infected or zero occupants changes status, and the step runs to its end.
C7_GuardedNoTransmission == [][C7_Step]_vars

C7_Witness ==
    /\ pc = "turn3"
    /\ \E n1, n2, n3 \in node_ids :
          /\ nodes[n1].population.infected = 0
          /\ nodes[n1].population.non_infected > 0
          /\ nodes[n2].population.infected > 0
          /\ nodes[n2].population.non_infected = 0
          /\ Occupants(n3) = {}

NonInfectedAt(n) == {p \in Occupants(n) : nodes[n].people[p] = "non_infected"}

\* C9  Infection is drawn per person: at a node with at least one infected and
\* at least two non-infected occupants, every subset of the non-infected
\* occupants is a possible set of newly infected persons of the infection step.
C9_PerAgentDraw ==
    pc \in {"infect1", "infect2", "infect3"} =>
        \A n \in node_ids :
            (nodes[n].population.infected >= 1 /\ Cardinality(NonInfectedAt(n)) >= 2) =>
                \A X \in SUBSET NonInfectedAt(n) :
                    ENABLED (/\ ApplyInfection
                             /\ {p \in NonInfectedAt(n) :
                                    person_status'[p] = "infected"} = X)

C9_Witness ==
    /\ pc = "infect2"
    /\ \E n \in node_ids :
          /\ nodes[n].population.infected >= 1
          /\ Cardinality(NonInfectedAt(n)) >= 2

-----------------------------------------------------------------------------
(* Construction and the first record of the history. *)

\* The state between __init__ and the first run_simulation
Fresh == pc = "ready" /\ stdout = <<>>

HomeOf(n) == {p \in DOMAIN person_to_household : person_to_household[p] = n}

\* C19  After construction and before any day is run, every person is located
\* at its household; each household node lists exactly the persons whose home
\* it is, with their statuses, and its infected and non-infected counters count
\* them; every node that is not a household is empty.
C19_InitialOccupancy ==
    Fresh =>
        /\ \A p \in DOMAIN person_to_household :
              person_location[p] = person_to_household[p]
        /\ \A n \in node_ids :
              /\ nodes[n].category # "h" => HomeOf(n) = {}
              /\ Occupants(n) = HomeOf(n)
              /\ \A p \in Occupants(n) : nodes[n].people[p] = person_status[p]
              /\ \A st \in Statuses :
                    nodes[n].population[st] =
                        Cardinality({p \in HomeOf(n) : person_status[p] = st})

C19_Witness ==
    /\ Fresh
    /\ \E n1, n2 \in node_ids :
          /\ n1 # n2
          /\ nodes[n1].category = "h" /\ nodes[n2].category = "h"
          /\ nodes[n1].population.infected = 1
          /\ nodes[n1].population.non_infected = 1
          /\ Occupants(n2) # {}
    /\ \E n3 \in node_ids : nodes[n3].category # "h"

\* C20  Initial seeding: a constructed simulation has exactly
\* int(total_population * initial_infected_percentage) infected persons and
\* total_population persons in all, the others non-infected; the first entry
\* of the history reports that number of infected persons.
C20_InitialSeeding ==
    LET seeded == (total_population * initial_infected_percentage[1])
                      \div initial_infected_percentage[2]
    IN /\ Fresh =>
             /\ Count("infected") = seeded
             /\ Count("non_infected") = total_population - seeded
             /\ Cardinality(DOMAIN person_status) = total_population
       /\ (Constructed /\ simulation_history # <<>>) =>
             /\ simulation_history[1].day = 0
             /\ simulation_history[1].total_infected = seeded

C20_Witness ==
    /\ total_population = MaxPop
    /\ initial_infected_percentage = <<1, 2>>
    /\ pc = "ready"
    /\ Len(simulation_history) >= 2
    /\ Last(simulation_history).total_infected > simulation_history[1].total_infected

\* C12  After run_simulation(days) on a fresh instance the history has exactly
\* days entries, and its k-th entry (counted from 1) describes day k.
C12_OneEntryPerDay ==
    (pc = "ready" /\ NumCalls = 1) =>
        /\ Len(simulation_history) = days
        /\ \A k \in DOMAIN simulation_history : simulation_history[k].day = k

\* C13  Construction fails whenever category_counts creates no household node,
\* whatever the population (zero included) and the other categories.
C13_NoHouseholdFails ==
    (pc # "new" /\ category_counts["h"] = 0) => pc = "error"

\* C14  Without a school and without an office turn1 does not fail and leaves
\* every person at its household, and the infection step after it finds the
\* persons in their household nodes.
C14_HomeFallback ==
    (pc = "infect1" /\ school_ids \cup office_ids = {}) =>
        \A p \in DOMAIN person_to_household :
            /\ person_location[p] = person_to_household[p]
            /\ p \in Occupants(person_to_household[p])
            /\ nodes[person_to_household[p]].people[p] = person_status[p]

RECURSIVE SumInfected(_)
\* The infected counters of the nodes of S, added up
SumInfected(S) ==
    IF S = {} THEN 0
    ELSE LET n == CHOOSE x \in S : TRUE
         IN nodes[n].population.infected + SumInfected(S \ {n})

\* C16  A person infected by an infection step is not counted as infectious
\* during the rest of the day: at every infection step the infected counters
\* of the nodes, from which the infection chances are computed, count no more
\* persons than were infected when the last history entry was recorded.
C16_NewlyInfectedNotInfectious ==
    (pc \in {"infect1", "infect2", "infect3"} /\ simulation_history # <<>>) =>
        SumInfected(node_ids) <= Last(simulation_history).total_infected

\* The categories the social turn may lead to, besides a person's own household
SocialCategories == {"r", "sh", "c", "t"}

\* C18  After turn2 every person is at its own household or at a node of a
\* social category: nobody is at a school, an office, a hospital, a park or
\* the household of somebody else.
C18_SocialDestinations ==
    pc = "infect2" =>
        \A p \in DOMAIN person_location :
            \/ person_location[p] = person_to_household[p]
            \/ person_location[p][1] \in SocialCategories

-----------------------------------------------------------------------------
(* What the operations change and what they leave alone. *)

\* What C22 says of one step
C22_Step ==
    /\ \A p \in DOMAIN person_status :
          person_status[p] = "infected" =>
              p \in DOMAIN person_status' /\ person_status'[p] = "infected"
    /\ (/\ simulation_history' # simulation_history
        /\ simulation_history # <<>>
        /\ Last(simulation_history').day # 0) =>
          Last(simulation_history).total_infected
              <= Last(simulation_history').total_infected

\* C22  Infection is one-way: no operation sets an infected person back to
\* non_infected, and within one run_simulation call every history entry
\* records at least as many infected persons as the entry before it.
C22_InfectionOneWay == [][C22_Step]_vars

C22_Witness ==
    /\ Len(simulation_history) = 3
    /\ simulation_history[1].total_infected < simulation_history[2].total_infected
    /\ simulation_history[2].total_infected < simulation_history[3].total_infected
    /\ simulation_history[3].day = 2

\* C23  With nobody infected at construction (fraction 0, or
\* int(total_population * fraction) = 0) nobody is ever infected, and every
\* history entry records 0 infected persons.
C23_NoSeedNoInfection ==
    (/\ Constructed
     /\ (total_population * initial_infected_percentage[1])
            \div initial_infected_percentage[2] = 0) =>
        /\ Count("infected") = 0
        /\ \A i \in DOMAIN simulation_history :
              simulation_history[i].total_infected = 0

C23_Witness ==
    /\ initial_infected_percentage = <<0, 1>>
    /\ total_population = MaxPop
    /\ pc = "ready"
    /\ DaysRun = MaxDays
    /\ Len(simulation_history) > MaxDays
    /\ \E n \in node_ids : nodes[n].population.non_infected >= 2

\* What C24 says of one step
C24_Step ==
    pc \in {"turn1", "turn2", "turn3"} =>
        /\ person_status' = person_status
        /\ person_to_household' = person_to_household
        /\ simulation_history' = simulation_history
        /\ <<category_counts', total_population', initial_infected_percentage'>>
             = <<category_counts, total_population, initial_infected_percentage>>

\* C24  turn1, turn2 and turn3 leave every person's status and household
\* unchanged (and the history and the constructor arguments): they change the
\* locations and the occupancy of the nodes only.
C24_TurnsKeepStatusAndHome == [][C24_Step]_vars

C24_Witness ==
    /\ pc = "infect2"
    /\ \E p, q \in DOMAIN person_location :
          /\ person_location[p] # person_to_household[p]
          /\ person_status[p] = "infected"
          /\ person_status[q] = "non_infected"
          /\ person_location[q][1] = "h"

\* What C25 says of one step
C25_Step ==
    pc \in {"infect1", "infect2", "infect3"} =>
        /\ person_location' = person_location
        /\ person_to_household' = person_to_household
        /\ simulation_history' = simulation_history
        /\ DOMAIN person_status' = DOMAIN person_status
        /\ \A p \in DOMAIN person_status :
              person_status'[p] # person_status[p] =>
                  person_status[p] = "non_infected" /\ person_status'[p] = "infected"

\* C25  apply_infection leaves every person's location and household
\* unchanged: it changes statuses, from non_infected to infected only, and
\* the node records.
C25_InfectionKeepsLocations == [][C25_Step]_vars

C25_Witness ==
    /\ pc = "turn3"
    /\ Count("infected") > Last(simulation_history).total_infected
    /\ \E p \in DOMAIN person_location :
          /\ person_location[p] # person_to_household[p]
          /\ person_status[p] = "infected"
          /\ p >= (total_population * initial_infected_percentage[1])
                      \div initial_infected_percentage[2]

RECURSIVE SumCounters(_)
\* The infected and non_infected counters of the nodes of S, added up
SumCounters(S) ==
    IF S = {} THEN 0
    ELSE LET n == CHOOSE x \in S : TRUE
         IN nodes[n].population.infected + nodes[n].population.non_infected
                + SumCounters(S \ {n})

\* C26  After every apply_infection the node records agree with the tables of
\* the persons: a node's people are exactly the persons located at it, each
\* with its status, its counters count them by status, and the counters of
\* all nodes add up to the number of persons.
C26_RecordsAgreeAfterInfection ==
    pc \in {"turn2", "turn3", "record"} =>
        /\ \A n \in node_ids :
              /\ Occupants(n) = Located(n)
              /\ \A p \in Occupants(n) : nodes[n].people[p] = person_status[p]
              /\ \A st \in Statuses :
                    nodes[n].population[st] =
                        Cardinality({p \in Located(n) : person_status[p] = st})
        /\ SumCounters(node_ids) = Cardinality(DOMAIN person_status)

C26_Witness ==
    /\ pc = "turn2"
    /\ school_ids \cup office_ids = {}
    /\ Cardinality({n \in node_ids : Located(n) # {}}) = 2
    /\ Count("infected") >= 1
    /\ Count("non_infected") >= 1

\* C27  Over any sequence of run_simulation calls on one instance the day
\* numbers of the history increase strictly from entry to entry: no day
\* number is recorded twice.
C27_DaysStrictlyIncrease ==
    \A i, j \in DOMAIN simulation_history :
        i < j => simulation_history[i].day < simulation_history[j].day

\* What C28 says of one step
C28_Step ==
    simulation_history' # simulation_history =>
        /\ \A p \in DOMAIN person_location :
              person_location[p] = person_to_household[p]
        /\ person_location' = person_location

\* C28  Every history entry is recorded while every person is located at its
\* own household, also in a later run_simulation call on the same instance.
C28_RecordedAtHome == [][C28_Step]_vars

C28_Witness ==
    /\ NumCalls = 2
    /\ pc = "ready"
    /\ total_population >= 2
    /\ Len(simulation_history) = 4
    /\ simulation_history[3].day = 0
    /\ Last(simulation_history).day = 1

\* C29  Construction gives every person exactly one home, a household node,
\* round-robin over household_ids: the numbers of residents of two households
\* differ by at most one.
C29_RoundRobinHomes ==
    Constructed =>
        /\ DOMAIN person_to_household = DOMAIN person_status
        /\ Cardinality(DOMAIN person_to_household) = total_population
        /\ \A p \in DOMAIN person_to_household :
              /\ person_to_household[p] \in node_ids
              /\ nodes[person_to_household[p]].category = "h"
        /\ \A n1, n2 \in {n \in node_ids : nodes[n].category = "h"} :
              Cardinality(HomeOf(n1)) <= Cardinality(HomeOf(n2)) + 1

C29_Witness ==
    /\ Fresh
    /\ total_population = MaxPop
    /\ \E n1, n2 \in node_ids :
          /\ nodes[n1].category = "h" /\ nodes[n2].category = "h"
          /\ Cardinality(HomeOf(n1)) = Cardinality(HomeOf(n2)) + 1
          /\ HomeOf(n2) # {}

-----------------------------------------------------------------------------
(* calculate_infection_chance as a function of the node it is given: a     *)
(* node of any category and occupancy is handed to it, and one more        *)
(* infected occupant at a time arrives at the node.                        *)

\* The graph simulation, not constructed
GraphIdle ==
    /\ category_counts = NoCounts
    /\ total_population = 0
    /\ initial_infected_percentage = <<0, 1>>
    /\ nodes = <<>>
    /\ person_to_household = <<>>
    /\ person_location = <<>>
    /\ person_status = <<>>
    /\ simulation_history = <<>>
    /\ pc = "new"
    /\ day = 0
    /\ days = 0
    /\ stdout = <<>>

\* The categories of the nodes handed over: those of category_factors, and one
\* it does not list ("st", a stadium)
QueryCategories == Categories \cup {"st"}

ChanceInit ==
    /\ GraphIdle
    /\ \E c \in QueryCategories, i, n \in 0..MaxOccupants :
          q_node = [Node(<<c, 1>>, c) EXCEPT
                       !.population = [infected |-> i, non_infected |-> n]]
    /\ q_chance = <<>>
    /\ q_prev = <<>>
    /\ people = <<>> /\ config = <<>> /\ current_day = 0 /\ phase = ""
    /\ CallersIdle

\* chance = self.calculate_infection_chance(node)
Calculate ==
    /\ q_chance = <<>>
    /\ q_chance' = <<calculate_infection_chance(q_node)>>
    /\ UNCHANGED <<q_node, q_prev, gvars, dvars>>

\* One more infected occupant arrives: node.population['infected'] += 1
InfectedArrives ==
    /\ q_chance # <<>>
    /\ q_node.population.infected < MaxOccupants
    /\ q_node' = [q_node EXCEPT !.population.infected = @ + 1]
    /\ q_prev' = q_chance
    /\ q_chance' = <<>>
    /\ UNCHANGED <<gvars, dvars>>

ChanceNext ==
    \/ Calculate /\ UNCHANGED xvars
    \/ InfectedArrives /\ UNCHANGED xvars

SpecChance == ChanceInit /\ [][ChanceNext]_vars

\* C8  Monotonic risk: with the category and the number of non-infected
\* occupants fixed, the chance computed after one more infected occupant has
\* arrived is not below the chance computed before.
C8_MonotonicInInfected ==
    (q_prev # <<>> /\ q_chance # <<>>) => RatLE(q_prev[1], q_chance[1])

C8_Witness ==
    /\ q_prev # <<>> /\ q_chance # <<>>
    /\ q_node.population.infected >= 2
    /\ q_node.population.non_infected >= 1
    /\ ~RatLE(q_chance[1], q_prev[1])

\* What C30 says of one step
C30_Step ==
    (q_chance = <<>> /\ q_chance' # <<>>) =>
        LET r        == q_chance'[1]
            infected == q_node.population.infected
            total    == q_node.population.infected + q_node.population.non_infected
        IN /\ r.den > 0
           /\ total = 0 => r.num = 0
           /\ total > 0 =>
                 r.num * total * 10 = infected * category_factors(q_node.category) * r.den
           /\ (total > 0 /\ q_node.category \notin Categories) =>
                 r.num * total * 2 = infected * r.den
           /\ 0 <= r.num
           /\ r.num * 10 <= 9 * r.den
           /\ q_node' = q_node
           /\ gvars' = gvars

\* C30  calculate_infection_chance returns 0 for a node without occupants and
\* otherwise exactly (infected / total) times the factor of the category (0.5
\* for a category that has none); the value is between 0 and 0.9, so that the
\* cap at 1.0 never changes it; the call changes neither the node nor the
\* simulation.
C30_ChanceValue == [][C30_Step]_vars

C30_Witness ==
    /\ q_chance # <<>>
    /\ q_node.category = "H"
    /\ q_node.population.infected = MaxOccupants
    /\ q_node.population.non_infected = 0
    /\ q_chance[1].num * 10 = 9 * q_chance[1].den

-----------------------------------------------------------------------------
(* The disease progression of the Simulation class that app.py and app2.py *)
(* drive (Simulation.people, _update_disease_progression,                  *)
(* _move_and_infect).  The class itself is not among the source files; it  *)
(* is modelled from sections 3, 4.2, 4.3 and 4.4 of the specification.     *)
(* Where the agents are is left out: an agent may be exposed in a phase    *)
(* whenever some agent is infectious or asymptomatic.                      *)

DiseaseStates ==
    {"susceptible", "exposed", "infectious", "asymptomatic", "removed", "dead"}

TerminalStates == {"removed", "dead"}

\* The disease parameters of the modelled runs; probabilities are rationals
DiseaseConfigs ==
    { [time_of_incubation |-> 1, time_of_activation |-> 1,
       percentage_of_death |-> <<1, 2>>, detection_of_disease_rate |-> <<1, 2>>,
       quarantine_on_detection |-> TRUE],
      [time_of_incubation |-> 2, time_of_activation |-> 1,
       percentage_of_death |-> <<0, 1>>, detection_of_disease_rate |-> <<0, 1>>,
       quarantine_on_detection |-> FALSE],
      [time_of_incubation |-> 1, time_of_activation |-> 2,
       percentage_of_death |-> <<1, 1>>, detection_of_disease_rate |-> <<1, 1>>,
       quarantine_on_detection |-> FALSE] }

\* preventative_measures of the modelled runs: no vaccination, perfect
\* vaccination of everybody, a vaccine that can fail, half coverage
VaccinationChoices ==
    { [vaccination_percentage |-> <<0, 1>>, vaccination_effectiveness |-> <<9, 10>>],
      [vaccination_percentage |-> <<1, 1>>, vaccination_effectiveness |-> <<1, 1>>],
      [vaccination_percentage |-> <<1, 1>>, vaccination_effectiveness |-> <<1, 2>>],
      [vaccination_percentage |-> <<1, 2>>, vaccination_effectiveness |-> <<1, 1>>] }

\* The configurations of the modelled runs
ProgressionConfigs == {d @@ v : d \in DiseaseConfigs, v \in VaccinationChoices}

\* The outcomes of a draw that is true with probability prob
Bernoulli(prob) ==
    {b \in BOOLEAN : (b => 0 < prob[1]) /\ (~b => prob[1] < prob[2])}

Person(state) ==
    [disease_state |-> state, days_in_state |-> 0,
     detected |-> FALSE, quarantined |-> FALSE, vaccinated |-> FALSE]

\* A vaccination that marks the agent and leaves its disease state alone
VaccinatedMarkedOnly(person, effective) ==
    [person EXCEPT !.vaccinated = TRUE]

\* A susceptible agent after its vaccination at construction: removed when
\* the vaccine is effective for it
Vaccinated(person, effective) ==
    [person EXCEPT !.vaccinated = TRUE,
                   !.disease_state = IF effective THEN "removed" ELSE @]

\* A progression in which immunity wanes: a removed agent becomes susceptible
\* again once the infection duration has passed
ProgressedPersonsWaning(person) ==
    LET aged == person.days_in_state + 1
    IN IF person.disease_state = "removed" /\ aged > config.time_of_activation
       THEN {[person EXCEPT !.disease_state = "susceptible", !.days_in_state = 0]}
       ELSE IF person.disease_state = "exposed" /\ aged > config.time_of_incubation
       THEN {[person EXCEPT !.disease_state = st, !.days_in_state = 0] :
                st \in {"infectious", "asymptomatic"}}
       ELSE IF /\ person.disease_state \in {"infectious", "asymptomatic"}
               /\ aged > config.time_of_activation
       THEN {[person EXCEPT !.disease_state = IF dies THEN "dead" ELSE "removed",
                            !.days_in_state = 0] :
                dies \in Bernoulli(config.percentage_of_death)}
       ELSE {[person EXCEPT !.days_in_state = aged]}

\* The persons one agent can be after a day's progression: the timer counts
\* the day, a due transition fires and resets it, and a symptomatic agent not
\* yet detected may be detected
ProgressedPersons(person) ==
    LET aged == person.days_in_state + 1
        moved ==
            IF person.disease_state = "exposed" /\ aged > config.time_of_incubation
            THEN {[person EXCEPT !.disease_state = st, !.days_in_state = 0] :
                     st \in {"infectious", "asymptomatic"}}
            ELSE IF /\ person.disease_state \in {"infectious", "asymptomatic"}
                    /\ aged > config.time_of_activation
            THEN {[person EXCEPT !.disease_state = IF dies THEN "dead" ELSE "removed",
                                 !.days_in_state = 0] :
                     dies \in Bernoulli(config.percentage_of_death)}
            ELSE {[person EXCEPT !.days_in_state = aged]}
        Detected(q) ==
            IF q.disease_state = "infectious" /\ ~q.detected
            THEN {[q EXCEPT !.detected = found,
                            !.quarantined =
                                @ \/ (found /\ config.quarantine_on_detection)] :
                     found \in Bernoulli(config.detection_of_disease_rate)}
            ELSE {q}
    IN UNION {Detected(q) : q \in moved}

\* The phases of one day, in order
DayPhases == <<"progression", "work", "social", "home">>

PhaseAfter(ph) ==
    LET i == CHOOSE k \in DOMAIN DayPhases : DayPhases[k] = ph
    IN DayPhases[(i % Len(DayPhases)) + 1]

ProgressionInit ==
    /\ GraphIdle
    /\ q_node = <<>> /\ q_chance = <<>> /\ q_prev = <<>>
    /\ config \in ProgressionConfigs
    /\ \E n \in 1..MaxAgents :
          people \in [1..n -> {Person(st) : st \in {"susceptible", "infectious", "removed"}}]
    /\ current_day = 0
    /\ phase = "vaccination"
    /\ CallersIdle

\* The last step of the construction: a fraction vaccination_percentage of the
\* agents still susceptible after the seeding of the disease is vaccinated,
\* each one removed with probability vaccination_effectiveness
SeedVaccination ==
    /\ phase = "vaccination"
    /\ LET susceptible == {a \in DOMAIN people : people[a].disease_state = "susceptible"}
           number      == (Cardinality(susceptible) * config.vaccination_percentage[1])
                              \div config.vaccination_percentage[2]
       IN \E covered \in SUBSET susceptible :
             /\ Cardinality(covered) = number
             /\ \E effective \in [covered -> BOOLEAN] :
                   /\ \A a \in covered :
                         effective[a] \in Bernoulli(config.vaccination_effectiveness)
                   /\ people' = [a \in DOMAIN people |->
                                   IF a \in covered
                                   THEN Vaccinated(people[a], effective[a])
                                   ELSE people[a]]
    /\ phase' = DayPhases[1]
    /\ UNCHANGED <<config, current_day, gvars, qvars>>

\* _update_disease_progression: one day for every agent
UpdateDiseaseProgression ==
    /\ phase = "progression"
    /\ current_day < MaxSimDays
    /\ people' \in {f \in [DOMAIN people ->
                               UNION {ProgressedPersons(people[a]) : a \in DOMAIN people}] :
                        \A a \in DOMAIN people : f[a] \in ProgressedPersons(people[a])}
    /\ current_day' = current_day + 1
    /\ phase' = PhaseAfter(phase)
    /\ UNCHANGED <<config, gvars, qvars>>

\* _move_and_infect(phase): each susceptible agent met by an infectious or
\* asymptomatic one may become exposed
MoveAndInfect ==
    /\ phase \in {"work", "social", "home"}
    /\ LET infectors   == {a \in DOMAIN people :
                              people[a].disease_state \in {"infectious", "asymptomatic"}}
           susceptible == {a \in DOMAIN people : people[a].disease_state = "susceptible"}
       IN \E newly \in SUBSET susceptible :
             /\ newly # {} => infectors # {}
             /\ people' = [a \in DOMAIN people |->
                             IF a \in newly THEN Person("exposed") ELSE people[a]]
    /\ phase' = PhaseAfter(phase)
    /\ UNCHANGED <<config, current_day, gvars, qvars>>

ProgressionNext ==
    \/ SeedVaccination /\ UNCHANGED xvars
    \/ UpdateDiseaseProgression /\ UNCHANGED xvars
    \/ MoveAndInfect /\ UNCHANGED xvars

SpecProgression == ProgressionInit /\ [][ProgressionNext]_vars

\* What C3 says of one step
C3_Step ==
    \A a \in DOMAIN people :
        people[a].disease_state \in TerminalStates =>
            people'[a].disease_state = people[a].disease_state

\* preventative_measures: everybody vaccinated with a vaccine that never fails
PerfectVaccination ==
    /\ config.vaccination_percentage = <<1, 1>>
    /\ config.vaccination_effectiveness = <<1, 1>>

\* C21  Perfect vaccination: with effectiveness 1.0 and coverage 100% no agent
\* that was susceptible before the vaccination is ever exposed or infected,
\* also with infectious agents present.  Under full coverage the agents that
\* were susceptible are the vaccinated ones: a vaccinated agent is never
\* exposed, infectious, asymptomatic or dead, and no other agent is
\* susceptible or exposed.
C21_PerfectVaccination ==
    (PerfectVaccination /\ phase # "vaccination") =>
        \A a \in DOMAIN people :
            /\ people[a].vaccinated =>
                  people[a].disease_state
                      \notin {"exposed", "infectious", "asymptomatic", "dead"}
            /\ ~people[a].vaccinated =>
                  people[a].disease_state \notin {"susceptible", "exposed"}

C21_Witness ==
    /\ PerfectVaccination
    /\ current_day >= 1
    /\ phase = "home"
    /\ \E a, b \in DOMAIN people :
          /\ people[a].vaccinated
          /\ people[b].disease_state = "infectious"

\* C3  Terminal states are absorbing: an agent that is removed or dead is in
\* the same state after every later step.
C3_TerminalAbsorbing == [][C3_Step]_vars

C3_Witness ==
    \E a, b \in DOMAIN people :
        /\ people[a].disease_state = "dead"
        /\ people[a].days_in_state >= 1
        /\ people[b].disease_state = "removed"
        /\ people[b].days_in_state >= 1
        /\ current_day = MaxSimDays

-----------------------------------------------------------------------------
(* The micro-simulation of app2.py: the caller runs the days itself, one   *)
(* _move_and_infect per turn and _update_disease_progression, and appends  *)
(* an entry to its timeline after every turn.                              *)

\* for day in range(1, 3)
MicroDays == 2

\* The statements of the day loop of app2.py that act on the Simulation
MicroLoopBody == <<"work", "social", "home", "progression">>

\* 'turn' of the timeline entry appended after _move_and_infect(phase)
TurnLabel == [work |-> "Work", social |-> "Social", home |-> "Home"]

\* The loop variable day: the day of the last timeline entry, and one more
\* when the loop body starts again
MicroDay ==
    IF phase = MicroLoopBody[1]
    THEN Last(timeline).day + 1
    ELSE Last(timeline).day

MicroInit ==
    /\ GraphIdle
    /\ q_node = <<>> /\ q_chance = <<>> /\ q_prev = <<>>
    /\ config \in {c \in ProgressionConfigs : c.vaccination_percentage = <<0, 1>>}
    /\ \E n \in 1..MaxAgents :
          people \in [1..n -> {Person(st) : st \in {"susceptible", "infectious", "removed"}}]
    /\ current_day = 0
    /\ phase = MicroLoopBody[1]
    /\ timeline = <<[day |-> 0, turn |-> "Initial"]>>
    /\ random_stream = <<>>
    /\ random_pos = 0
    /\ person_order = <<>>
    /\ process = ""
    /\ alone_history = <<>>
    /\ alone_days = 0
    /\ other = <<>>
    /\ work_log = <<>>

\* sim._move_and_infect(phase), then st.session_state.timeline.append(...)
MicroTurn ==
    /\ MicroDay <= MicroDays
    /\ MoveAndInfect
    /\ timeline' = Append(timeline, [day |-> MicroDay, turn |-> TurnLabel[phase]])
    /\ UNCHANGED <<random_stream, random_pos, person_order, process,
                   alone_history, alone_days, other, work_log>>

\* sim._update_disease_progression(), the last statement of the loop body
MicroProgression ==
    /\ MicroDay <= MicroDays
    /\ UpdateDiseaseProgression
    /\ UNCHANGED xvars

MicroNext == MicroTurn \/ MicroProgression

SpecMicro == MicroInit /\ [][MicroNext]_vars

\* C15  In every day the callers drive, the disease progression is applied
\* exactly once and before the three turns of the day: when the work, social
\* or home turn of day k has been run, the progression has been applied k
\* times, once for each day up to day k.
C15_ProgressionBeforeTurns ==
    \A i \in DOMAIN timeline :
        (i = Len(timeline) /\ timeline[i].turn \in {"Work", "Social"}) =>
            current_day = timeline[i].day

-----------------------------------------------------------------------------
(* The instance under an explicit generator.  GraphSimulation draws from   *)
(* the module-level generator of random: what a draw returns is fixed by   *)
(* the seed and by the number of draws made before it, by whomever.  The   *)
(* instance is run twice from the same seed and with the same arguments:   *)
(* first in a process of its own, then in a process in which a second      *)
(* instance is constructed and moved between its steps.                    *)

\* The number of outputs after which the generator repeats
StreamPeriod == 4

\* The number of values an output of the generator can take
RawOutputs == 2

\* The k-th output of the generator, counted from 0
Output(k) == random_stream[(k % StreamPeriod) + 1]

\* random.choice(seq), drawn as the k-th output: seq[_randbelow(len(seq))]
Choice(seq, k) == seq[(Output(k) % Len(seq)) + 1]

\* random.random() < chance, random() drawn as the k-th output
RandomBelow(k, chance) == Output(k) * chance.den < chance.num * RawOutputs

RECURSIVE Shuffle(_, _, _)
\* random.shuffle(x) from position i down, the next output being the k-th:
\* for i in reversed(range(1, len(x))): j = randbelow(i + 1); x[i], x[j] = x[j], x[i]
Shuffle(x, i, k) ==
    IF i < 2 THEN x
    ELSE LET j == (Output(k) % i) + 1
         IN Shuffle([x EXCEPT ![i] = x[j], ![j] = x[i]], i - 1, k + 1)

\* The keys of CATEGORY_COUNTS in the order of the dictionary
CategoryOrder == <<"h", "sh", "p", "s", "r", "c", "t", "H", "o">>

\* The ids of the nodes of category c, in the order they were created
IdsOf(c) == [i \in 1..category_counts[c] |-> <<c, i>>]

RECURSIVE NodeIdsUpTo(_)
\* self.node_ids: list(self.nodes.keys()), for the first k categories
NodeIdsUpTo(k) ==
    IF k = 0 THEN <<>> ELSE NodeIdsUpTo(k - 1) \o IdsOf(CategoryOrder[k])

NodeIdList == NodeIdsUpTo(Len(CategoryOrder))

\* destinations = self.school_ids + self.office_ids
DestinationList == IdsOf("s") \o IdsOf("o")

IndexIn(seq, x) == CHOOSE i \in DOMAIN seq : seq[i] = x

\* The persons apply_infection draws for, and for each the number of draws
\* made before its own: the nodes in the order of self.nodes, the
\* non-infected persons of a node in the order of node.people
DrawnFor ==
    {p \in DOMAIN person_status :
        \E n \in node_ids :
            /\ p \in NonInfectedAt(n)
            /\ calculate_infection_chance(nodes[n]) # Zero}

NodeOf(p) == CHOOSE n \in node_ids : p \in Occupants(n)

DrawsBefore(p) ==
    Cardinality({q \in DrawnFor :
        \/ IndexIn(NodeIdList, NodeOf(q)) < IndexIn(NodeIdList, NodeOf(p))
        \/ /\ NodeOf(q) = NodeOf(p)
           /\ IndexIn(person_order, q) < IndexIn(person_order, p)})

SeededInit ==
    /\ category_counts \in CategoryCountsChoices
    /\ total_population \in 0..MaxPop
    /\ initial_infected_percentage \in PercentageChoices
    /\ nodes = <<>>
    /\ person_to_household = <<>>
    /\ person_location = <<>>
    /\ person_status = <<>>
    /\ simulation_history = <<>>
    /\ pc = "new"
    /\ day = 0
    /\ days = 0
    /\ stdout = <<>>
    /\ q_node = <<>> /\ q_chance = <<>> /\ q_prev = <<>>
    /\ people = <<>> /\ config = <<>> /\ current_day = 0 /\ phase = ""
    /\ timeline = <<>>
    /\ random_stream \in [1..StreamPeriod -> 0..(RawOutputs - 1)]
    /\ random_pos = 0
    /\ person_order = <<>>
    /\ process = "alone"
    /\ alone_history = <<>>
    /\ alone_days = 0
    /\ other = [pc |-> "none", population |-> 0]
    /\ work_log = <<>>

\* __init__ with random.shuffle drawing from the generator
SeededConstruct ==
    /\ Construct
    /\ LET n     == total_population
           order == Shuffle([i \in 1..n |-> i - 1], n, random_pos)
           hh    == HouseholdIds(InitialNodes(category_counts))
       IN /\ random_pos' = random_pos + RangeLen(n - 1)
          /\ IF pc' = "ready"
             THEN /\ person_order' = order
                  /\ person_to_household' =
                        [p \in 0..(n - 1) |->
                            hh[((IndexIn(order, p) - 1) % Len(hh)) + 1]]
             ELSE person_order' = <<>>
    /\ UNCHANGED <<timeline, random_stream, process, alone_history, alone_days,
                   other, work_log>>

\* run_simulation(d), once in each process and for the same days in both
SeededRunSimulation ==
    /\ NumCalls = 0
    /\ \E d \in 1..MaxDays :
          /\ process = "shared" => d = alone_days
          /\ RunSimulation(d)
    /\ UNCHANGED xvars

\* turn1 with random.choice drawing from the generator, one draw per person
\* in the order of person_to_household.items()
SeededTurn1 ==
    /\ Turn1
    /\ IF Len(DestinationList) = 0
       THEN random_pos' = random_pos
       ELSE /\ person_location' =
                  [p \in DOMAIN person_location |->
                      Choice(DestinationList,
                             random_pos + IndexIn(person_order, p) - 1)]
            /\ random_pos' = random_pos + Len(person_order)
    /\ work_log' = Append(work_log, person_location')
    /\ UNCHANGED <<timeline, random_stream, person_order, process,
                   alone_history, alone_days, other>>

\* turn2 with random.choice drawing from the generator, one draw per person
\* in the order of person_location.items()
SeededTurn2 ==
    /\ Turn2
    /\ person_location' =
          [p \in DOMAIN person_location |->
              Choice(NodeIdList, random_pos + IndexIn(person_order, p) - 1)]
    /\ random_pos' = random_pos + Len(person_order)
    /\ UNCHANGED <<timeline, random_stream, person_order, process,
                   alone_history, alone_days, other, work_log>>

\* turn3 draws nothing
SeededTurn3 ==
    /\ Turn3
    /\ UNCHANGED xvars

\* apply_infection with random.random drawing from the generator
SeededApplyInfection ==
    /\ ApplyInfection
    /\ person_status' =
          [p \in DOMAIN person_status |->
              IF /\ p \in DrawnFor
                 /\ RandomBelow(random_pos + DrawsBefore(p),
                                calculate_infection_chance(nodes[NodeOf(p)]))
              THEN "infected"
              ELSE person_status[p]]
    /\ random_pos' = random_pos + Cardinality(DrawnFor)
    /\ UNCHANGED <<timeline, random_stream, person_order, process,
                   alone_history, alone_days, other, work_log>>

SeededRecordDay ==
    /\ RecordDay
    /\ UNCHANGED xvars

\* The process with the instance alone has ended; a new process starts from
\* the same seed, with the same arguments
StartShared ==
    /\ process = "alone"
    /\ pc = "ready"
    /\ NumCalls = 1
    /\ process' = "shared"
    /\ alone_history' = simulation_history
    /\ alone_days' = days
    /\ random_pos' = 0
    /\ person_order' = <<>>
    /\ work_log' = <<>>
    /\ nodes' = <<>>
    /\ person_to_household' = <<>>
    /\ person_location' = <<>>
    /\ person_status' = <<>>
    /\ simulation_history' = <<>>
    /\ pc' = "new"
    /\ day' = 0
    /\ days' = 0
    /\ stdout' = <<>>
    /\ UNCHANGED <<category_counts, total_population, initial_infected_percentage,
                   timeline, random_stream, other, qvars, dvars>>

\* A second instance is constructed, with the same nodes and n persons:
\* its random.shuffle draws from the same generator
OtherConstruct ==
    /\ process = "shared"
    /\ Constructed
    /\ other.pc = "none"
    /\ \E n \in 1..MaxPop :
          /\ other' = [pc |-> IF category_counts["h"] = 0 THEN "error" ELSE "ready",
                       population |-> n]
          /\ random_pos' = random_pos + RangeLen(n - 1)
    /\ UNCHANGED <<timeline, random_stream, person_order, process,
                   alone_history, alone_days, work_log, gvars, qvars, dvars>>

\* turn2 of the second instance: one random.choice per person of it
OtherTurn2 ==
    /\ process = "shared"
    /\ Constructed
    /\ other.pc = "ready"
    /\ other' = [other EXCEPT !.pc = "moved"]
    /\ random_pos' = random_pos + other.population
    /\ UNCHANGED <<timeline, random_stream, person_order, process,
                   alone_history, alone_days, work_log, gvars, qvars, dvars>>

SeededNext ==
    \/ SeededConstruct
    \/ SeededRunSimulation
    \/ SeededTurn1
    \/ SeededTurn2
    \/ SeededTurn3
    \/ SeededApplyInfection
    \/ SeededRecordDay
    \/ StartShared
    \/ OtherConstruct
    \/ OtherTurn2

SpecSeeded == SeededInit /\ [][SeededNext]_vars

\* The run of the instance has ended in the process it shares
SharedRunEnded == process = "shared" /\ pc = "ready" /\ NumCalls = 1

\* C11  Instances share no mutable state: constructing or moving a second
\* instance between the steps of the first does not change the history the
\* first produces, which is the history it produces alone from the same seed.
C11_HistoryUnaffected ==
    SharedRunEnded => simulation_history = alone_history

\* C17  Every person goes to the same work node on every day: the locations
\* after turn1 are the same on all days of a run.
C17_SameWorkNode ==
    \A i, j \in DOMAIN work_log : work_log[i] = work_log[j]

=============================================================================
